---- MODULE Spec2Model ----
(***************************************************************************)
(* Model of the article-searching scraper (src/main.py): the per-row loop  *)
(* of main(), the two search providers with fallback, the content fetch,   *)
(* the two extraction oracles with their confirmatory re-asks, the CSV and *)
(* sheet sinks and the scraped-URL store.                                  *)
(*                                                                         *)
(* main() is one coroutine; the model gives it one action per stretch of   *)
(* code between two network calls, and draws the outcome of each network   *)
(* call (response, failure) from a small set.                              *)
(***************************************************************************)
EXTENDS Integers, Sequences, FiniteSets, TLC

\* ------------------------------------------------------------------ bounds
NJobs == 1          \* data rows in the job sheet
MaxQuota == 2       \* largest paragraph count / scraped counter in a row
MaxPageLen == 2     \* links on one result page

\* ------------------------------------------------------- program constants
NumResultsArg == 10 \* num_results=10 passed by main
MaxPagesArg == 1    \* max_pages=1 passed by main
GOOGLE_RATE_LIMIT == 2  \* seconds between Google requests
BING_RATE_LIMIT == 2    \* seconds between Bing requests

\* Source identifiers.  "c.pdf" stands for a link containing ".pdf".
Urls == {"a", "b", "c.pdf"}

HasMediaExt(link) == link \in {"c.pdf"}

\* ---------------------------------------------------------- Python values
PyNone == [t |-> "none", v |-> ""]
PyFloat == [t |-> "float", v |-> "85.0"]
PyStr(s) == [t |-> "str", v |-> s]

\* str.lower() on the strings the oracles answer with
Lower(s) ==
  CASE s = "None" -> "none"
    [] s = "NONE" -> "none"
    [] OTHER -> s

\* str.upper() on the strings found in the flag column
Upper(s) ==
  CASE s = "true" -> "TRUE"
    [] s = "false" -> "FALSE"
    [] OTHER -> s

Digits == <<"0", "1", "2", "3", "4", "5", "6", "7", "8", "9">>

\* str.isdigit()
IsDigit(s) == \E n \in 1..Len(Digits) : Digits[n] = s

\* int(s) for a string s with IsDigit(s)
ParseInt(s) == (CHOOSE n \in 1..Len(Digits) : Digits[n] = s) - 1

Min(a, b) == IF a < b THEN a ELSE b

Take_All(s, n) == s

\* list[:n]
Take(s, n) == SubSeq(s, 1, Min(n, Len(s)))

\* ------------------------------------------------------------- job sheet
HeaderRow == <<"Keywords", "Instructions", "Start", "End", "Count", "Scraped", "Counter">>

CountStrs == {Digits[n + 1] : n \in 1..MaxQuota}
CounterStrs == {Digits[n + 1] : n \in 0..(MaxQuota - 1)}

FullRows ==
  {<<"q", "i", "s", "e", c, "FALSE", k>> : c \in CountStrs, k \in CounterStrs}
    \cup {<<"q", "i", "s", "e", "x", "FALSE", "0">>,
          <<"q", "i", "s", "e", "1", "TRUE", "1">>}

\* The sheet API drops trailing empty cells: rows come in every length.
JobRows == FullRows \cup {<<"q", "i", "s", "e", "1", "FALSE">>, <<"q", "i", "s", "e", "1">>}

\* values().update of one cell, padding the row with empty cells
SetCell(sheet, r, c, val) ==
  IF r \in 1..Len(sheet)
  THEN [sheet EXCEPT ![r] =
          [i \in 1..(IF Len(@) > c THEN Len(@) ELSE c) |->
             IF i = c THEN val ELSE IF i <= Len(@) THEN @[i] ELSE ""]]
  ELSE sheet

\* ---------------------------------------------------------------- oracles
NoData == [kind |-> "unset", content |-> "", score |-> PyNone]

\* return "None" of extract_relevant_data / check_again_in_openai: a str
FailedData == [kind |-> "str", content |-> "", score |-> PyNone]

\* response.choices[0].message.parsed, content None replaced by 'None'
ParsedData(content, score) ==
  [kind |-> "rec", content |-> IF content = PyNone THEN "None" ELSE content.v,
   score |-> score]

\* content: absent, the sentinel in capitals, or a paragraph with its score
OpenAIAnswers ==
  {FailedData, ParsedData(PyNone, PyNone), ParsedData(PyStr("NONE"), PyNone),
   ParsedData(PyStr("para"), PyFloat)}

\* result if result else "None"; "None" on an exception
ClaudeTexts == {"", "None", "para"}

ClaudeResult(text) == IF text = "" THEN "None" ELSE text

ClaudeAnswers == {ClaudeResult(t) : t \in ClaudeTexts} \cup {"None"}

\* ------------------------------------------------------------------ state
VARIABLES
  pc,                  \* position of main()
  job_sheet,           \* the job sheet, header row first
  rows,                \* result.get('values', [])[1:]
  index,               \* enumerate(rows, start=1)
  paragraph_count, scraped_counter, remaining_paragraphs, processed_paragraphs,
  scraped_urls,        \* module-level set
  scraped_file,        \* contents of scraped_urls.json
  store_errors,        \* which of load_scraped_urls, save_scraped_urls logged an error
  num_results, max_pages, current_page, new_results, results, provider,
  links,               \* value returned by get_google_search_results
  new_links, link_idx, \* for link in new_links
  content, relevant_data, claude_paragraph,
  csv_exists, csv_file, \* search_results.csv
  result_sheet,        \* rows appended to the result sheet
  row_errors,          \* errors logged by the per-row except
  calls,               \* network calls made for the current row
  reasks,              \* confirmatory re-asks issued for the current link
  status,              \* outcome of the last page request: response.status or an error
  search_args,         \* query, start_date, end_date of the search call
  run,                 \* 0: one run in a changing world; n > 0: n-th run in an unchanged world
  memo                 \* what the unchanged world has answered so far

searchVars == <<num_results, max_pages, current_page, new_results, results, provider,
               links, status, search_args>>
rowVars == <<paragraph_count, scraped_counter, remaining_paragraphs, processed_paragraphs>>
linkVars == <<new_links, link_idx>>
oracleVars == <<content, relevant_data, claude_paragraph, reasks>>
storeVars == <<scraped_urls, scraped_file, store_errors>>
sinkVars == <<csv_exists, csv_file, result_sheet>>
sheetVars == <<job_sheet, rows>>
worldVars == <<run, memo>>

\* The state of the functions that are also examined on their own, outside
\* a run of main(): one call of fetch_content_from_url followed by the
\* oracle calls on its text, and several callers of the search providers.
VARIABLES
  url,                 \* argument of fetch_content_from_url, a tuple of characters
  api_response,        \* what the Zyte API answers
  parser,              \* the extraction applied to the response body
  page_text,           \* what fetch_content_from_url returned
  user_prompt,         \* the text each oracle function put after "Text: "
  clock,               \* seconds since the callers were started
  caller,              \* where each caller of the search stands
  semaphore,           \* value of google_semaphore and of bing_semaphore
  issued               \* time of the last page request to each provider

fetchVars == <<url, api_response, parser, page_text, user_prompt>>
rateVars == <<clock, caller, semaphore, issued>>
unitVars == <<fetchVars, rateVars>>

mainVars == <<pc, index, sheetVars, rowVars, searchVars, linkVars, oracleVars,
              storeVars, sinkVars, row_errors, calls, worldVars>>

vars == <<pc, index, sheetVars, rowVars, searchVars, linkVars, oracleVars,
          storeVars, sinkVars, row_errors, calls, worldVars, unitVars>>

Seqs(S, n) == UNION {[1..k -> S] : k \in 0..n}

\* asks: the oracle calls made for the link that was fetched last
NoCalls == [search |-> 0, fetch |-> 0, oracle |-> 0, asks |-> 0]

\* The unchanged world: a page request, a fetch or an oracle call that was
\* made before is answered as it was the first time.
NoMemo == <<>>

Answers(key, all) == IF run > 0 /\ key \in DOMAIN memo THEN {memo[key]} ELSE all

Remember(key, answer) == IF run > 0 THEN (key :> answer) @@ memo ELSE memo

PageKey(engine, page) == <<engine, Digits[page + 1]>>

\* The locals of main() and of the search call before the first row.
InitLocals ==
  /\ rows = <<>>
  /\ index = 1
  /\ paragraph_count = 0
  /\ scraped_counter = 0
  /\ remaining_paragraphs = 0
  /\ processed_paragraphs = 0
  /\ num_results = 0
  /\ max_pages = 0
  /\ current_page = 0
  /\ new_results = <<>>
  /\ results = <<>>
  /\ provider = "none"
  /\ links = <<>>
  /\ status = "none"
  /\ search_args = <<>>
  /\ new_links = <<>>
  /\ link_idx = 1
  /\ content = PyNone
  /\ relevant_data = NoData
  /\ claude_paragraph = "unset"
  /\ row_errors = {}
  /\ calls = NoCalls
  /\ reasks = {}

\* No function is examined on its own.
OracleCalls ==
  <<"extract_relevant_data", "extract_claude_paragraph", "check_again_in_claude",
    "check_again_in_openai">>

\* A text is a tuple of runs of one character; "" is <<>>.
Run(c, n) == [c |-> c, n |-> n]

NoBody == [format |-> "none", text |-> <<>>]
NoResponse == [kind |-> "none", body |-> NoBody]
NotYet == [t |-> "unset", v |-> <<>>]
NoneText == [t |-> "none", v |-> <<>>]
StrText(t) == [t |-> "str", v |-> t]

\* No caller of the search.
InitRateIdle ==
  /\ clock = 0
  /\ caller = <<>>
  /\ semaphore = <<>>
  /\ issued = <<>>

InitUnit ==
  /\ url = <<>>
  /\ api_response = NoResponse
  /\ parser = "none"
  /\ page_text = NotYet
  /\ user_prompt = [i \in 1..Len(OracleCalls) |-> NotYet]
  /\ InitRateIdle

\* No result file and an empty result sheet.
InitSinks ==
  /\ csv_exists = FALSE
  /\ csv_file = <<>>
  /\ result_sheet = <<>>

Init ==
  /\ pc = "read_jobs"
  /\ job_sheet \in {<<HeaderRow>> \o s : s \in [1..NJobs -> JobRows]}
  /\ scraped_urls \in {{}, {"a"}}
  /\ scraped_file = scraped_urls
  /\ store_errors = {}
  /\ InitLocals
  /\ InitSinks
  /\ InitUnit
  /\ run = 0
  /\ memo = NoMemo

\* ------------------------------------------------------------ row control
\* Locals of the row body are dead once the row is left: they are reset.
EndRow ==
  /\ index' = index + 1
  /\ pc' = "row"
  /\ paragraph_count' = 0
  /\ scraped_counter' = 0
  /\ remaining_paragraphs' = 0
  /\ processed_paragraphs' = 0
  /\ num_results' = 0
  /\ max_pages' = 0
  /\ current_page' = 0
  /\ new_results' = <<>>
  /\ results' = <<>>
  /\ provider' = "none"
  /\ links' = <<>>
  /\ status' = "none"
  /\ search_args' = <<>>
  /\ new_links' = <<>>
  /\ link_idx' = 1
  /\ content' = PyNone
  /\ relevant_data' = NoData
  /\ claude_paragraph' = "unset"
  /\ reasks' = {}
  /\ calls' = NoCalls

RaiseInRow_Fatal(error) ==
  /\ index' = index
  /\ pc' = "done"
  /\ UNCHANGED <<rowVars, searchVars, linkVars, oracleVars, calls>>
  /\ row_errors' = row_errors \cup {<<index, error>>}

\* except Exception as e: logger.error(f"Error processing row {index}: {e}")
RaiseInRow(error) ==
  /\ EndRow
  /\ row_errors' = row_errors \cup {<<index, error>>}

Called(what) ==
  IF what = "fetch" THEN [calls EXCEPT !.fetch = @ + 1, !.asks = 0]
  ELSE IF what = "oracle" THEN [calls EXCEPT !.oracle = @ + 1, !.asks = @ + 1]
  ELSE [calls EXCEPT ![what] = @ + 1]

\* service = ...; rows = result.get('values', [])[1:]
ReadJobs ==
  /\ pc = "read_jobs"
  /\ \/ /\ rows' = Tail(job_sheet)
        /\ pc' = "row"
     \/ /\ pc' = "done"
        /\ UNCHANGED rows
  /\ UNCHANGED <<index, job_sheet, rowVars, searchVars, linkVars, oracleVars,
                 storeVars, sinkVars, row_errors, calls, worldVars>>
  /\ UNCHANGED unitVars

\* row[i] if len(row) > i else default
Cell(row, i, default) == IF Len(row) > i THEN row[i + 1] ELSE default

\* int(row[6]) if len(row) > 6 and row[6].isdigit() else 0
CounterOf(row) == IF Len(row) > 6 /\ IsDigit(row[7]) THEN ParseInt(row[7]) ELSE 0

\* scraped_flag.upper() == "TRUE"
AlreadyScraped(flag) == Upper(flag) = "TRUE"

\* The row body up to the first search request.
RowStart ==
  /\ pc = "row"
  /\ index <= Len(rows)
  /\ LET row == rows[index]
         keywords == Cell(row, 0, "")
         count == Cell(row, 4, "1")
         quota == ParseInt(count)
         counter == CounterOf(row)
     IN  IF Len(row) <= 5
         THEN \* scraped_flag = row[5]
              /\ RaiseInRow("IndexError")
              /\ UNCHANGED job_sheet
         ELSE IF AlreadyScraped(row[6]) \/ ~IsDigit(count)
         THEN /\ EndRow
              /\ UNCHANGED <<job_sheet, row_errors>>
         ELSE IF quota - counter <= 0
         THEN \/ /\ job_sheet' = SetCell(job_sheet, index, 6, "TRUE")
                 /\ EndRow
                 /\ UNCHANGED row_errors
              \/ /\ RaiseInRow("HttpError")
                 /\ UNCHANGED job_sheet
         ELSE /\ paragraph_count' = quota
              /\ scraped_counter' = counter
              /\ remaining_paragraphs' = quota - counter
              /\ num_results' = NumResultsArg
              /\ max_pages' = MaxPagesArg
              /\ current_page' = 0
              /\ new_results' = <<>>
              /\ search_args' = <<keywords, Cell(row, 2, ""), Cell(row, 3, "")>>
              /\ provider' = "google"
              /\ pc' = "google"
              /\ UNCHANGED <<index, job_sheet, processed_paragraphs, results, links,
                             status, linkVars, oracleVars, row_errors, calls>>
  /\ UNCHANGED <<rows, storeVars, sinkVars, worldVars>>
  /\ UNCHANGED unitVars

\* for index, row in enumerate(rows, start=1) is exhausted
Finish ==
  /\ pc = "row"
  /\ index > Len(rows)
  /\ pc' = "done"
  /\ UNCHANGED <<index, sheetVars, rowVars, searchVars, linkVars, oracleVars,
                 storeVars, sinkVars, row_errors, calls, worldVars>>
  /\ UNCHANGED unitVars

\* ----------------------------------------------------------------- search
PageLinks == Seqs(Urls, MaxPageLen)

FilterExcluded_Unfiltered(found, excluded) == found

\* filtered = [link for link in results if link not in scraped_urls]
FilterExcluded(found, excluded) == SelectSeq(found, LAMBDA l : l \notin excluded)

\* if link not in scraped_urls and not any(domain in link for domain in [...])
BingFilter(found, excluded) ==
  SelectSeq(found, LAMBDA l : l \notin excluded /\ ~HasMediaExt(l))

EnoughResults_Strict(acc, wanted) == Len(acc) > wanted

\* if len(new_results) >= num_results: break
EnoughResults(acc, wanted) == Len(acc) >= wanted

\* current_page += 1; while current_page < max_pages
LastPage(page, pages) == page + 1 >= pages

FallbackCall_SwappedCounts(args, wanted, pages) == [args |-> args, num_results |-> pages, max_pages |-> wanted]

\* get_bing_search_results(query, start_date, end_date, num_results,
\* scraped_urls, max_pages): the arguments of the fallback call
FallbackCall(args, wanted, pages) == [args |-> args, num_results |-> wanted, max_pages |-> pages]

BingStart_KeepPrimary(acc) == acc

\* get_bing_search_results starts with new_results = [], whatever Google
\* had accumulated
BingStart(acc) == <<>>

\* One page request of get_google_search_results and what follows it up to
\* the next request: the fallback call or the return.
GooglePage ==
  /\ pc = "google"
  /\ current_page < max_pages
  /\ calls' = Called("search")
  /\ \/ \* status != 200, or the request raises
        /\ status' \in {"status", "error"}
        /\ LET call == FallbackCall(search_args, num_results, max_pages)
           IN  /\ search_args' = call.args
               /\ num_results' = call.num_results
               /\ max_pages' = call.max_pages
        /\ provider' = "bing"
        /\ pc' = "bing"
        /\ current_page' = 0
        /\ new_results' = BingStart(new_results)
        /\ results' = <<>>
        /\ UNCHANGED <<links, memo>>
     \/ \E found \in Answers(PageKey("google", current_page), PageLinks) :
          LET acc == new_results \o FilterExcluded(found, scraped_urls)
          IN  /\ status' = "ok"
              /\ memo' = Remember(PageKey("google", current_page), found)
              /\ results' = found
              /\ new_results' = acc
              /\ IF EnoughResults(acc, num_results) \/ LastPage(current_page, max_pages)
                 THEN /\ links' = Take(acc, num_results)
                      /\ pc' = "search_ret"
                      /\ UNCHANGED current_page
                 ELSE /\ current_page' = current_page + 1
                      /\ UNCHANGED <<links, pc>>
              /\ UNCHANGED <<num_results, max_pages, provider, search_args>>
  /\ UNCHANGED <<index, sheetVars, rowVars, linkVars, oracleVars, storeVars,
                 sinkVars, row_errors, run>>
  /\ UNCHANGED unitVars

BingBroken_Empty(acc, wanted) == <<>>

\* break  # Stop trying Bing if a page fails ... return new_results[:num_results]
BingBroken(acc, wanted) == Take(acc, wanted)

\* One page request of get_bing_search_results up to the next request or
\* the return.
BingPage ==
  /\ pc = "bing"
  /\ current_page < max_pages
  /\ calls' = Called("search")
  /\ \/ \* the request raises: return []
        /\ status' = "error"
        /\ links' = <<>>
        /\ results' = <<>>
        /\ pc' = "search_ret"
        /\ UNCHANGED <<new_results, current_page, memo>>
     \/ \* status != 200: break, return new_results[:num_results]
        /\ status' = "status"
        /\ links' = BingBroken(new_results, num_results)
        /\ results' = <<>>
        /\ pc' = "search_ret"
        /\ UNCHANGED <<new_results, current_page, memo>>
     \/ \E found \in Answers(PageKey("bing", current_page), PageLinks) :
          LET acc == new_results \o BingFilter(found, scraped_urls)
          IN  /\ status' = "ok"
              /\ memo' = Remember(PageKey("bing", current_page), found)
              /\ results' = found
              /\ new_results' = acc
              /\ IF EnoughResults(acc, num_results) \/ LastPage(current_page, max_pages)
                 THEN /\ links' = Take(acc, num_results)
                      /\ pc' = "search_ret"
                      /\ UNCHANGED current_page
                 ELSE /\ current_page' = current_page + 1
                      /\ UNCHANGED <<links, pc>>
  /\ UNCHANGED <<num_results, max_pages, provider, search_args>>
  /\ UNCHANGED <<index, sheetVars, rowVars, linkVars, oracleVars, storeVars,
                 sinkVars, row_errors, run>>
  /\ UNCHANGED unitVars

\* if not links: break ... if not new_links: continue
AfterSearch ==
  /\ pc = "search_ret"
  /\ IF links = <<>>
     THEN EndRow
     ELSE /\ new_links' = links
          /\ link_idx' = 1
          /\ processed_paragraphs' = 0
          /\ pc' = "loop"
          /\ num_results' = 0
          /\ max_pages' = 0
          /\ current_page' = 0
          /\ new_results' = <<>>
          /\ results' = <<>>
          /\ provider' = "none"
          /\ links' = <<>>
          /\ status' = "none"
          /\ search_args' = <<>>
          /\ UNCHANGED <<index, paragraph_count, scraped_counter,
                         remaining_paragraphs, oracleVars, calls>>
  /\ UNCHANGED <<sheetVars, storeVars, sinkVars, row_errors, worldVars>>
  /\ UNCHANGED unitVars

\* ---------------------------------------------------------- candidate loop
QuotaReached_OffByOne(processed, remaining) == processed > remaining

QuotaReached_Never(processed, remaining) == FALSE

\* if processed_paragraphs >= remaining_paragraphs: break
QuotaReached(processed, remaining) == processed >= remaining

NextLink_Skip ==
  /\ link_idx' = link_idx + 2
  /\ pc' = "loop"
  /\ content' = PyNone
  /\ relevant_data' = NoData
  /\ claude_paragraph' = "unset"
  /\ reasks' = {}

\* The loop moves on to the next link; the locals of the body are dead.
NextLink ==
  /\ link_idx' = link_idx + 1
  /\ pc' = "loop"
  /\ content' = PyNone
  /\ relevant_data' = NoData
  /\ claude_paragraph' = "unset"
  /\ reasks' = {}

\* for link in new_links: the skip of scraped links and the quota break
\* (a batch that is used up leaves the row: the test after the loop,
\* "if processed_paragraphs < remaining_paragraphs", has the body "pass")
LoopHead ==
  /\ pc = "loop"
  /\ IF link_idx > Len(new_links)
     THEN EndRow
     ELSE IF new_links[link_idx] \in scraped_urls
     THEN /\ link_idx' = link_idx + 1
          /\ UNCHANGED <<pc, index, rowVars, searchVars, new_links, oracleVars, calls>>
     ELSE IF QuotaReached(processed_paragraphs, remaining_paragraphs)
     THEN EndRow
     ELSE /\ pc' = "fetch"
          /\ UNCHANGED <<index, rowVars, searchVars, linkVars, oracleVars, calls>>
  /\ UNCHANGED <<sheetVars, storeVars, sinkVars, row_errors, worldVars>>
  /\ UNCHANGED unitVars

\* What fetch_content_from_url returns: None, or the text of the page or
\* of the PDF, which may be empty.
FetchResults == {PyNone, PyStr(""), PyStr("text")}

\* if content:
Truthy(val) == val.t = "str" /\ val.v # ""

\* content = await fetch_content_from_url(link); requests.post is called
\* without a timeout, so a request that gets no response never returns
Fetch ==
  /\ pc = "fetch"
  /\ calls' = Called("fetch")
  /\ \/ \E text \in Answers(<<"fetch", new_links[link_idx]>>, FetchResults) :
          /\ memo' = Remember(<<"fetch", new_links[link_idx]>>, text)
          /\ IF Truthy(text)
             THEN /\ content' = text
                  /\ reasks' = {}
                  /\ pc' = "openai"
                  /\ UNCHANGED <<link_idx, relevant_data, claude_paragraph>>
             ELSE NextLink
     \/ /\ run = 0 \/ <<"fetch", new_links[link_idx]>> \notin DOMAIN memo
        /\ pc' = "blocked"
        /\ UNCHANGED <<link_idx, oracleVars, memo>>
  /\ UNCHANGED <<index, sheetVars, rowVars, searchVars, new_links, storeVars,
                 sinkVars, row_errors, run>>
  /\ UNCHANGED unitVars

\* relevant_data = extract_relevant_data(content, keywords, instructions)
ExtractOpenAI ==
  /\ pc = "openai"
  /\ calls' = Called("oracle")
  /\ relevant_data' \in Answers(<<"openai", new_links[link_idx]>>, OpenAIAnswers)
  /\ memo' = Remember(<<"openai", new_links[link_idx]>>, relevant_data')
  /\ pc' = "claude"
  /\ UNCHANGED <<index, sheetVars, rowVars, searchVars, linkVars, content,
                 claude_paragraph, reasks, storeVars, sinkVars, row_errors, run>>
  /\ UNCHANGED unitVars

\* claude_paragraph = await extract_claude_paragraph(content, keywords, instructions)
ExtractClaude ==
  /\ pc = "claude"
  /\ calls' = Called("oracle")
  /\ claude_paragraph' \in Answers(<<"claude", new_links[link_idx]>>, ClaudeAnswers)
  /\ memo' = Remember(<<"claude", new_links[link_idx]>>, claude_paragraph')
  /\ pc' = "check_claude"
  /\ UNCHANGED <<index, sheetVars, rowVars, searchVars, linkVars, content,
                 relevant_data, reasks, storeVars, sinkVars, row_errors, run>>
  /\ UNCHANGED unitVars

\* x.lower() == "none"
IsNone(text) == Lower(text) = "none"

NeedClaudeReask_AnyEmpty(data, paragraph) == IsNone(paragraph)

\* (relevant_data.content.lower() != "none") and (claude_paragraph.lower() == "none")
NeedClaudeReask(data, paragraph) == ~IsNone(data.content) /\ IsNone(paragraph)

NeedOpenAIReask_Always(data, paragraph) == ~IsNone(paragraph)

\* (claude_paragraph.lower() != "none") and (relevant_data.content.lower() == "none")
NeedOpenAIReask(data, paragraph) == ~IsNone(paragraph) /\ IsNone(data.content)

\* (relevant_data.content.lower() == "none") and (claude_paragraph.lower() == "none")
BothNone(data, paragraph) == IsNone(data.content) /\ IsNone(paragraph)

BothFound_Either(data, paragraph) == ~IsNone(data.content) \/ ~IsNone(paragraph)

\* (relevant_data.content.lower() != "none") and (claude_paragraph.lower() != "none")
BothFound(data, paragraph) == ~IsNone(data.content) /\ ~IsNone(paragraph)

\* The first re-ask test; relevant_data.content raises on the str "None".
CheckClaude ==
  /\ pc = "check_claude"
  /\ IF relevant_data.kind = "str"
     THEN /\ RaiseInRow("AttributeError")
          /\ UNCHANGED memo
     ELSE IF NeedClaudeReask(relevant_data, claude_paragraph)
     THEN /\ claude_paragraph' \in Answers(<<"reclaude", new_links[link_idx]>>, ClaudeAnswers)
          /\ memo' = Remember(<<"reclaude", new_links[link_idx]>>, claude_paragraph')
          /\ reasks' = reasks \cup {"claude"}
          /\ calls' = Called("oracle")
          /\ pc' = "check_openai"
          /\ UNCHANGED <<index, rowVars, searchVars, linkVars, content,
                         relevant_data, row_errors>>
     ELSE /\ pc' = "check_openai"
          /\ UNCHANGED <<index, rowVars, searchVars, linkVars, oracleVars,
                         row_errors, calls, memo>>
  /\ UNCHANGED <<sheetVars, storeVars, sinkVars, run>>
  /\ UNCHANGED unitVars

\* The second re-ask test.
CheckOpenAI ==
  /\ pc = "check_openai"
  /\ IF NeedOpenAIReask(relevant_data, claude_paragraph)
     THEN /\ relevant_data' \in Answers(<<"reopenai", new_links[link_idx]>>, OpenAIAnswers)
          /\ memo' = Remember(<<"reopenai", new_links[link_idx]>>, relevant_data')
          /\ reasks' = reasks \cup {"openai"}
          /\ calls' = Called("oracle")
          /\ UNCHANGED <<content, claude_paragraph>>
     ELSE UNCHANGED <<oracleVars, calls, memo>>
  /\ pc' = "decide"
  /\ UNCHANGED <<index, sheetVars, rowVars, searchVars, linkVars, storeVars,
                 sinkVars, row_errors, run>>
  /\ UNCHANGED unitVars

Saved_Batched(file, urls) == {[file |-> file, error |-> FALSE]}

\* save_scraped_urls: the file is rewritten, or the error is only logged
Saved(file, urls) == {[file |-> urls, error |-> FALSE], [file |-> file, error |-> TRUE]}

\* logger.error(f"Error saving scraped URLs: {e}")
SaveLogged(errors, failed) == IF failed THEN errors \cup {"save"} ELSE errors

\* The two tests on the answers: nothing found, or a row to emit.
Decide ==
  /\ pc = "decide"
  /\ IF relevant_data.kind = "str"
     THEN /\ RaiseInRow("AttributeError")
          /\ UNCHANGED storeVars
     ELSE IF BothNone(relevant_data, claude_paragraph)
     THEN /\ scraped_urls' = scraped_urls \cup {new_links[link_idx]}
          /\ \E saved \in Saved(scraped_file, scraped_urls') :
               /\ scraped_file' = saved.file
               /\ store_errors' = SaveLogged(store_errors, saved.error)
          /\ NextLink
          /\ UNCHANGED <<index, rowVars, searchVars, new_links, row_errors, calls>>
     ELSE IF BothFound(relevant_data, claude_paragraph)
     THEN /\ pc' = "save_csv"
          /\ UNCHANGED <<index, rowVars, searchVars, linkVars, oracleVars,
                         storeVars, row_errors, calls>>
     ELSE /\ NextLink
          /\ UNCHANGED <<index, rowVars, searchVars, new_links, storeVars,
                         row_errors, calls>>
  /\ UNCHANGED <<sheetVars, sinkVars, worldVars>>
  /\ UNCHANGED unitVars

\* ------------------------------------------------------------------ sinks
\* The columns of the model's rows: the query, the link, the two paragraphs
\* and the relevancy score, which stands for every Optional field.
CsvHeader == <<"Keywords", "Link", "Claude Paragraph", "Relevant Paragraph", "Relevancy Score">>

\* data_row = [keywords, link, claude_paragraph..., paragraph..., ..., score, ...]
DataRow(keywords, link, paragraph, data) ==
  <<PyStr(keywords), PyStr(link), PyStr(paragraph), PyStr(data.content), data.score>>

\* csv.writer: None is written as "", a float by repr, a str as it is
CsvStr(val) == val.v

CsvRow(row) == [i \in 1..Len(row) |-> CsvStr(row[i])]

\* tuple(row) == a tuple of the str cells read back from the file
TupleEq(row, cells) ==
  /\ Len(row) = Len(cells)
  /\ \A i \in 1..Len(row) : row[i].t = "str" /\ row[i].v = cells[i]

\* save_to_csv(filename, [row]): the new contents of the file
SaveToCsv(exists, file, row) ==
  LET header_exists == exists /\ file # <<>> /\ file[1] = CsvHeader
      body == IF header_exists THEN Tail(file) ELSE file
      existing_data == {body[i] : i \in 1..Len(body)}
      start == IF exists THEN file ELSE <<>>
      headed == IF ~exists \/ ~header_exists THEN Append(start, CsvHeader) ELSE start
  IN  IF \E cells \in existing_data : TupleEq(row, cells)
      THEN headed
      ELSE Append(headed, CsvRow(row))

CurrentRow == DataRow(rows[index][1], new_links[link_idx], claude_paragraph, relevant_data)

\* save_to_csv("search_results.csv", [data_row]); an OSError is not caught
SaveCsv ==
  /\ pc = "save_csv"
  /\ \/ /\ csv_file' = SaveToCsv(csv_exists, csv_file, CurrentRow)
        /\ csv_exists' = TRUE
        /\ pc' = "update_sheets"
        /\ UNCHANGED <<index, rowVars, searchVars, linkVars, oracleVars,
                       row_errors, calls>>
     \/ /\ RaiseInRow("OSError")
        /\ UNCHANGED <<csv_exists, csv_file>>
  /\ UNCHANGED <<sheetVars, storeVars, result_sheet, worldVars>>
  /\ UNCHANGED unitVars

\* await update_in_sheets(service, [data_row]); every error is only logged
UpdateSheets ==
  /\ pc = "update_sheets"
  /\ \/ result_sheet' = Append(result_sheet, CurrentRow)
     \/ UNCHANGED result_sheet
  /\ pc' = "record"
  /\ UNCHANGED <<index, sheetVars, rowVars, searchVars, linkVars, oracleVars,
                 storeVars, csv_exists, csv_file, row_errors, calls, worldVars>>
  /\ UNCHANGED unitVars

\* if scraped_counter >= paragraph_count:
RowComplete(counter, quota) == counter >= quota

\* scraped_urls.add(link) ... the flag update, which is sent without a body
\* and so leaves the sheet as it is, or raises.
Record ==
  /\ pc = "record"
  /\ scraped_urls' = scraped_urls \cup {new_links[link_idx]}
  /\ \E saved \in Saved(scraped_file, scraped_urls') :
       /\ scraped_file' = saved.file
       /\ store_errors' = SaveLogged(store_errors, saved.error)
  /\ IF RowComplete(scraped_counter + 1, paragraph_count)
     THEN \/ RaiseInRow("HttpError")
          \/ /\ processed_paragraphs' = processed_paragraphs + 1
             /\ scraped_counter' = scraped_counter + 1
             /\ NextLink
             /\ UNCHANGED <<index, paragraph_count, remaining_paragraphs,
                            searchVars, new_links, row_errors, calls>>
     ELSE /\ processed_paragraphs' = processed_paragraphs + 1
          /\ scraped_counter' = scraped_counter + 1
          /\ NextLink
          /\ UNCHANGED <<index, paragraph_count, remaining_paragraphs,
                         searchVars, new_links, row_errors, calls>>
  /\ UNCHANGED <<sheetVars, sinkVars, worldVars>>
  /\ UNCHANGED unitVars

Next ==
  \/ ReadJobs
  \/ RowStart
  \/ Finish
  \/ GooglePage
  \/ BingPage
  \/ AfterSearch
  \/ LoopHead
  \/ Fetch
  \/ ExtractOpenAI
  \/ ExtractClaude
  \/ CheckClaude
  \/ CheckOpenAI
  \/ Decide
  \/ SaveCsv
  \/ UpdateSheets
  \/ Record

Spec == Init /\ [][Next]_vars

\* ------------------------------------------------------ a sheet of two rows
\* The first row is one that fails or one that is worked on; the second
\* row asks for one paragraph.
FirstRows == {<<"q", "i", "s", "e", "1">>, <<"q", "i", "s", "e", "1", "FALSE", "0">>}

SecondRow == <<"q", "i", "s", "e", "1", "FALSE", "0">>

InitTwoRows ==
  /\ pc = "read_jobs"
  /\ job_sheet \in {<<HeaderRow, r, SecondRow>> : r \in FirstRows}
  /\ scraped_urls = {}
  /\ scraped_file = scraped_urls
  /\ store_errors = {}
  /\ InitLocals
  /\ InitSinks
  /\ InitUnit
  /\ run = 0
  /\ memo = NoMemo

SpecTwoRows == InitTwoRows /\ [][Next]_vars

\* ------------------------------------------ a row that asks for two
\* Both providers list three links on their first page, for a row that asks
\* for two paragraphs and has none; fetches and oracles answer freely.
ThreeLinks == <<"a", "b", "c.pdf">>

ScenarioRow == <<"q", "i", "s", "e", "2", "FALSE", "0">>

InitScenario ==
  /\ pc = "read_jobs"
  /\ job_sheet = <<HeaderRow, ScenarioRow>>
  /\ scraped_urls = {}
  /\ scraped_file = scraped_urls
  /\ store_errors = {}
  /\ InitLocals
  /\ InitSinks
  /\ InitUnit
  /\ run = 1
  /\ memo = (PageKey("google", 0) :> ThreeLinks) @@ (PageKey("bing", 0) :> ThreeLinks)

SpecScenario == InitScenario /\ [][Next]_vars

\* main() is run to its end by the event loop: a step that can be taken is
\* taken.
SpecScenarioFair == SpecScenario /\ WF_vars(Next)

\* --------------------------------- two rows that are given the same links
\* Two rows that ask for one paragraph each; both providers list the same
\* links for both, once with a link listed twice. run = 1, so memo holds
\* the fetches and oracle calls the run has made so far.
RepeatPages == {<<"a", "b">>, <<"a", "a">>}

InitRepeat ==
  /\ pc = "read_jobs"
  /\ job_sheet = <<HeaderRow, SecondRow, SecondRow>>
  /\ scraped_urls = {}
  /\ scraped_file = scraped_urls
  /\ store_errors = {}
  /\ InitLocals
  /\ InitSinks
  /\ InitUnit
  /\ run = 1
  /\ \E page \in RepeatPages :
       memo = (PageKey("google", 0) :> page) @@ (PageKey("bing", 0) :> page)

SpecRepeat == InitRepeat /\ [][Next]_vars

\* ------------------------------------ a result page longer than wanted
\* Both providers list one link more than main() asks for, for the row that
\* asks for two paragraphs; the links repeat, so that a link that was not
\* stored comes up again.
ManyLinks == [i \in 1..(NumResultsArg + 1) |-> IF i % 2 = 1 THEN "a" ELSE "b"]

InitBudget ==
  /\ pc = "read_jobs"
  /\ job_sheet = <<HeaderRow, ScenarioRow>>
  /\ scraped_urls = {}
  /\ scraped_file = scraped_urls
  /\ store_errors = {}
  /\ InitLocals
  /\ InitSinks
  /\ InitUnit
  /\ run = 1
  /\ memo = (PageKey("google", 0) :> ManyLinks) @@ (PageKey("bing", 0) :> ManyLinks)

SpecBudget == InitBudget /\ [][Next]_vars

\* main() is run to its end by the event loop.
SpecBudgetFair == SpecBudget /\ WF_vars(Next)

\* ------------------------------------------- the program run once more
\* The program is started again on the sheet of the row that asks for two,
\* with the files the earlier run left and a world that answers as it did
\* before.
MaxRuns == 2

\* scraped_urls = load_scraped_urls(): the saved set, or set() when the
\* file cannot be read
Loaded(file) == {[urls |-> file, error |-> FALSE], [urls |-> {}, error |-> TRUE]}

Restart ==
  /\ pc = "done"
  /\ run >= 1
  /\ run < MaxRuns
  /\ run' = run + 1
  /\ pc' = "read_jobs"
  /\ \E loaded \in Loaded(scraped_file) :
       /\ scraped_urls' = loaded.urls
       /\ store_errors' = IF loaded.error THEN {"load"} ELSE {}
  /\ rows' = <<>>
  /\ index' = 1
  /\ row_errors' = {}
  /\ UNCHANGED <<job_sheet, scraped_file, rowVars, searchVars, linkVars,
                 oracleVars, sinkVars, calls, memo>>
  /\ UNCHANGED unitVars

NextRerun ==
  \/ Next
  \/ Restart

SpecRerun == InitScenario /\ [][NextRerun]_vars

\* ------------------------------------------------ the program is killed
\* main() is inside save_scraped_urls: after scraped_urls.add(link) in the
\* branch where both oracles found nothing, or after a row was emitted.
Persisting ==
  \/ pc = "record"
  \/ /\ pc = "decide"
     /\ relevant_data.kind # "str"
     /\ BothNone(relevant_data, claude_paragraph)

\* What scraped_urls.json holds when the process dies inside
\* save_scraped_urls: open(..., 'w') has not run yet, or it has truncated
\* the file and json.dump has written nothing or a part of the list (a file
\* from which no link can be loaded), or the list is written in full.
Interrupted(file, urls) == {file, {}, urls}

\* The process is cancelled or crashes at any point of the run.
Crash ==
  /\ pc \notin {"done", "crashed"}
  /\ pc' = "crashed"
  /\ IF Persisting
     THEN /\ scraped_urls' = scraped_urls \cup {new_links[link_idx]}
          /\ scraped_file' \in Interrupted(scraped_file, scraped_urls')
          /\ UNCHANGED store_errors
     ELSE UNCHANGED storeVars
  /\ UNCHANGED <<index, sheetVars, rowVars, searchVars, linkVars, oracleVars,
                 sinkVars, row_errors, calls, worldVars>>
  /\ UNCHANGED unitVars

NextCrash ==
  \/ Next
  \/ Crash

SpecCrash == Init /\ [][NextCrash]_vars

\* ------------------------------------------------- one call of the search
\* get_google_search_results called with any wanted count and page limit,
\* for a row that asks for one paragraph, up to what main() does with the
\* returned list.
MaxWanted == 2
MaxPages == 2

InitSearch ==
  /\ pc = "google"
  /\ job_sheet = <<HeaderRow, SecondRow>>
  /\ rows = <<SecondRow>>
  /\ index = 1
  /\ paragraph_count = 1
  /\ scraped_counter = 0
  /\ remaining_paragraphs = 1
  /\ processed_paragraphs = 0
  /\ scraped_urls \in {{}, {"a"}}
  /\ scraped_file = scraped_urls
  /\ store_errors = {}
  /\ num_results \in 1..MaxWanted
  /\ max_pages \in 1..MaxPages
  /\ current_page = 0
  /\ new_results = <<>>
  /\ results = <<>>
  /\ provider = "google"
  /\ links = <<>>
  /\ status = "none"
  /\ search_args = <<"q", "s", "e">>
  /\ new_links = <<>>
  /\ link_idx = 1
  /\ content = PyNone
  /\ relevant_data = NoData
  /\ claude_paragraph = "unset"
  /\ row_errors = {}
  /\ calls = NoCalls
  /\ reasks = {}
  /\ InitSinks
  /\ InitUnit
  /\ run = 0
  /\ memo = NoMemo

NextSearch ==
  \/ GooglePage
  \/ BingPage
  \/ AfterSearch

SpecSearch == InitSearch /\ [][NextSearch]_vars

\* Each page request is answered or fails (aiohttp's default total timeout
\* ends a request that hangs).
SpecSearchFair == SpecSearch /\ WF_vars(NextSearch)

\* --------------------------- one call of the search, Google's pages known
\* The call of the search for which every Google page that is answered
\* lists the link "a"; a Google request may fail on any page. run = 1, so
\* memo holds the pages Bing has answered in the call.
GoogleLists == [k \in {PageKey("google", p) : p \in 0..MaxPages} |-> <<"a">>]

InitFallback ==
  /\ pc = "google"
  /\ job_sheet = <<HeaderRow, SecondRow>>
  /\ rows = <<SecondRow>>
  /\ index = 1
  /\ paragraph_count = 1
  /\ scraped_counter = 0
  /\ remaining_paragraphs = 1
  /\ processed_paragraphs = 0
  /\ scraped_urls \in {{}, {"b"}}
  /\ scraped_file = scraped_urls
  /\ store_errors = {}
  /\ num_results \in 1..MaxWanted
  /\ max_pages \in 1..MaxPages
  /\ current_page = 0
  /\ new_results = <<>>
  /\ results = <<>>
  /\ provider = "google"
  /\ links = <<>>
  /\ status = "none"
  /\ search_args = <<"q", "s", "e">>
  /\ new_links = <<>>
  /\ link_idx = 1
  /\ content = PyNone
  /\ relevant_data = NoData
  /\ claude_paragraph = "unset"
  /\ row_errors = {}
  /\ calls = NoCalls
  /\ reasks = {}
  /\ InitSinks
  /\ InitUnit
  /\ run = 1
  /\ memo = GoogleLists

SpecFallback == InitFallback /\ [][NextSearch]_vars

\* ------------------------------ one fetch and the oracle calls on its text
TextLimit == 25000   \* text[:25000]

\* main() is not running.
InitIdle ==
  /\ pc = "idle"
  /\ job_sheet = <<HeaderRow>>
  /\ scraped_urls = {}
  /\ scraped_file = scraped_urls
  /\ store_errors = {}
  /\ InitLocals
  /\ InitSinks
  /\ run = 0
  /\ memo = NoMemo

\* str.lower() on the characters of the links below
LowerChar(c) ==
  CASE c = "P" -> "p"
    [] c = "D" -> "d"
    [] c = "F" -> "f"
    [] OTHER -> c

LowerUrl(u) == [i \in 1..Len(u) |-> LowerChar(u[i])]

\* str.endswith(suffix)
EndsWith(str, suffix) ==
  /\ Len(str) >= Len(suffix)
  /\ SubSeq(str, Len(str) - Len(suffix) + 1, Len(str)) = suffix

IsPdfUrl_CaseSensitive(u) == EndsWith(u, <<".", "p", "d", "f">>)

\* if url.lower().endswith('.pdf'):
IsPdfUrl(u) == EndsWith(LowerUrl(u), <<".", "p", "d", "f">>)

FetchUrls ==
  {<<"a">>,
   <<"a", ".", "p", "d", "f">>,
   <<"a", ".", "P", "D", "F">>,
   <<"a", ".", "P", "d", "f">>,
   <<"a", ".", "p", "d", "f", "?", "x">>,
   <<"p", "d", "f">>,
   <<".", "p", "d", "f", ".", "h">>}

\* Texts shorter than the limit, of its length, and longer.
NoText == <<>>
ShortText == <<Run("x", 3)>>
LimitText == <<Run("x", TextLimit)>>
LongText == <<Run("x", TextLimit - 1), Run("y", 5)>>
OverText == <<Run("x", TextLimit), Run("y", 1)>>

\* The response bodies: PDF documents with and without text, HTML pages.
Bodies ==
  {[format |-> "pdf", text |-> OverText],
   [format |-> "pdf", text |-> NoText],
   [format |-> "html", text |-> ShortText],
   [format |-> "html", text |-> LimitText],
   [format |-> "html", text |-> LongText]}

\* The request fails, the answer has no httpResponseBody, or it has one.
ApiResponses ==
  {[kind |-> "error", body |-> NoBody], [kind |-> "nobody", body |-> NoBody]}
    \cup {[kind |-> "body", body |-> b] : b \in Bodies}

\* extract_text_from_pdf: the text of the pages, "" when PdfReader raises
ExtractTextFromPdf(body) == IF body.format = "pdf" THEN body.text ELSE NoText

\* BeautifulSoup(body, 'html.parser').get_text(): the text of the page; the
\* bytes of a PDF document come out as text too
GetText(body) == IF body.format = "html" THEN body.text ELSE <<Run("%", 4)>>

\* fetch_content_from_url(url)
FetchContentFromUrl ==
  /\ page_text = NotYet
  /\ url # <<>>
  /\ IF api_response.kind # "body"
     THEN /\ page_text' = NoneText
          /\ parser' = "none"
     ELSE IF IsPdfUrl(url)
     THEN /\ page_text' = StrText(ExtractTextFromPdf(api_response.body))
          /\ parser' = "pdf"
     ELSE /\ page_text' = StrText(GetText(api_response.body))
          /\ parser' = "markup"
  /\ UNCHANGED <<url, api_response, user_prompt, rateVars, mainVars>>

RECURSIVE TextLen(_)
\* len(text)
TextLen(t) == IF t = <<>> THEN 0 ELSE Head(t).n + TextLen(Tail(t))

RECURSIVE Slice(_, _)
\* text[:n]
Slice(t, n) ==
  IF t = <<>> \/ n <= 0 THEN <<>>
  ELSE IF Head(t).n <= n THEN <<Head(t)>> \o Slice(Tail(t), n - Head(t).n)
  ELSE <<Run(Head(t).c, n)>>

Truncated_Whole(t) == t

\* f"Text: {text[:25000]}"
Truncated(t) == Slice(t, TextLimit)

\* The oracle functions in the order main() calls them: both first asks,
\* then the re-asks, each of which main() may leave out.
Askable(i) ==
  /\ user_prompt[i] = NotYet
  /\ \A j \in 1..Len(OracleCalls) : j > i => user_prompt[j] = NotYet
  /\ i > 1 => user_prompt[1] # NotYet
  /\ i > 2 => user_prompt[2] # NotYet

\* if content: one of the four oracle functions is called with content
AskOracle(i) ==
  /\ page_text.t = "str"
  /\ page_text.v # <<>>
  /\ Askable(i)
  /\ user_prompt' = [user_prompt EXCEPT ![i] = StrText(Truncated(page_text.v))]
  /\ UNCHANGED <<url, api_response, parser, page_text, rateVars, mainVars>>

InitFetchAsk ==
  /\ InitIdle
  /\ url \in FetchUrls
  /\ api_response \in ApiResponses
  /\ parser = "none"
  /\ page_text = NotYet
  /\ user_prompt = [i \in 1..Len(OracleCalls) |-> NotYet]
  /\ InitRateIdle

NextFetchAsk ==
  \/ FetchContentFromUrl
  \/ \E i \in 1..Len(OracleCalls) : AskOracle(i)

SpecFetchAsk == InitFetchAsk /\ [][NextFetchAsk]_vars

\* ----------------------------------- several callers of the search
\* Coroutines that call get_google_search_results on one event loop, each
\* for MaxPages pages; time is counted in seconds.
NCallers == 2
MaxClock == 5

Providers == {"google", "bing"}

RateLimit(p) == IF p = "google" THEN GOOGLE_RATE_LIMIT ELSE BING_RATE_LIMIT

Permits_Two(p) == 2

\* google_semaphore = asyncio.Semaphore(1); bing_semaphore = asyncio.Semaphore(1)
Permits(p) == 1

NoRequest == -1

InitRate ==
  /\ InitIdle
  /\ url = <<>>
  /\ api_response = NoResponse
  /\ parser = "none"
  /\ page_text = NotYet
  /\ user_prompt = [i \in 1..Len(OracleCalls) |-> NotYet]
  /\ clock = 0
  /\ caller = [c \in 1..NCallers |->
                 [at |-> "loop", engine |-> "google", page |-> 0, since |-> 0]]
  /\ semaphore = [p \in Providers |-> Permits(p)]
  /\ issued = [p \in Providers |-> NoRequest]

\* async with google_semaphore: ... await asyncio.sleep(GOOGLE_RATE_LIMIT)
Acquire(c) ==
  /\ caller[c].at = "loop"
  /\ semaphore[caller[c].engine] > 0
  /\ semaphore' = [semaphore EXCEPT ![caller[c].engine] = @ - 1]
  /\ caller' = [caller EXCEPT ![c].at = "sleep", ![c].since = clock]
  /\ UNCHANGED <<clock, issued, fetchVars, mainVars>>

\* the sleep is over: session.get(url, headers=headers)
Request(c) ==
  /\ caller[c].at = "sleep"
  /\ clock >= caller[c].since + RateLimit(caller[c].engine)
  /\ caller' = [caller EXCEPT ![c].at = "request", ![c].since = 0]
  /\ issued' = [issued EXCEPT ![caller[c].engine] = clock]
  /\ UNCHANGED <<clock, semaphore, fetchVars, mainVars>>

\* How a page request ends: a non-200 status or an exception, enough
\* links, or fewer links than wanted.
Exits == {"failed", "enough", "more"}

Released_OnSuccess(sem, p, exit) ==
  IF exit = "failed" THEN sem ELSE [sem EXCEPT ![p] = @ + 1]

\* async with <provider>_semaphore: __aexit__ releases on the raise, on the
\* break and at the end of the block
Released(sem, p, exit) == [sem EXCEPT ![p] = @ + 1]

\* The response, or the failure of the request.
Respond(c) ==
  /\ caller[c].at = "request"
  /\ \E exit \in Exits :
       /\ semaphore' = Released(semaphore, caller[c].engine, exit)
       /\ IF exit = "failed"
          THEN \* Google hands over to Bing, Bing returns
               IF caller[c].engine = "google"
               THEN caller' = [caller EXCEPT ![c].at = "loop", ![c].engine = "bing",
                                             ![c].page = 0]
               ELSE caller' = [caller EXCEPT ![c].at = "returned"]
          ELSE IF exit = "enough"
          THEN \* break
               caller' = [caller EXCEPT ![c].at = "returned"]
          ELSE \* current_page += 1; while current_page < max_pages
               IF LastPage(caller[c].page, MaxPages)
               THEN caller' = [caller EXCEPT ![c].at = "returned"]
               ELSE caller' = [caller EXCEPT ![c].at = "loop", ![c].page = @ + 1]
  /\ UNCHANGED <<clock, issued, fetchVars, mainVars>>

\* A second passes.
Tick ==
  /\ clock < MaxClock
  /\ clock' = clock + 1
  /\ UNCHANGED <<caller, semaphore, issued, fetchVars, mainVars>>

NextRate ==
  \/ \E c \in 1..NCallers : Acquire(c)
  \/ \E c \in 1..NCallers : Request(c)
  \/ \E c \in 1..NCallers : Respond(c)
  \/ Tick

SpecRate == InitRate /\ [][NextRate]_vars

\* The loop's timer: time passes as long as a caller sleeps whose
\* asyncio.sleep is not over.
Elapse ==
  /\ \E c \in 1..NCallers :
       /\ caller[c].at = "sleep"
       /\ clock < caller[c].since + RateLimit(caller[c].engine)
  /\ clock' = clock + 1
  /\ UNCHANGED <<caller, semaphore, issued, fetchVars, mainVars>>

NextRateRun ==
  \/ \E c \in 1..NCallers : Acquire(c)
  \/ \E c \in 1..NCallers : Request(c)
  \/ \E c \in 1..NCallers : Respond(c)
  \/ Elapse

\* The event loop runs a coroutine that can go on, the sleeps end and every
\* page request is answered or fails (aiohttp's default total timeout ends a
\* request that hangs).
SpecRateFair == InitRate /\ [][NextRateRun]_vars /\ WF_vars(NextRateRun)

\* ------------------------------------------------------------- properties
\* main() is inside the body of a row, after the quota was computed
InBody ==
  pc \in {"google", "bing", "search_ret", "loop", "fetch", "openai", "claude",
          "check_claude", "check_openai", "decide", "save_csv", "update_sheets",
          "record"}

\* main() is working on the link new_links[link_idx] after its fetch
AfterFetch ==
  pc \in {"openai", "claude", "check_claude", "check_openai", "decide",
          "save_csv", "update_sheets", "record"}

\* after the current link the loop still holds a link that is not in the store
CandidateLeft ==
  \E i \in (link_idx + 1)..Len(new_links) : new_links[i] \notin scraped_urls

NoNewCall == \A what \in {"search", "fetch", "oracle"} : calls'[what] <= calls[what]

\* C1: while a row that starts with progress <= quota is processed, the
\* progress (scraped_counter) never exceeds the quota (paragraph_count).
C1_ProgressWithinQuota ==
  (InBody /\ CounterOf(rows[index]) <= ParseInt(Cell(rows[index], 4, "1")))
    => scraped_counter <= paragraph_count

\* a row that started with progress already made has reached its quota
C1_Witness ==
  /\ pc = "loop"
  /\ CounterOf(rows[index]) >= 1
  /\ processed_paragraphs >= 1
  /\ scraped_counter = paragraph_count

\* C2: once the progress of a row equals its quota, no search, fetch or
\* oracle call is issued for that row any more.
C2_NoCallOnceSatisfied ==
  [][(InBody /\ scraped_counter = paragraph_count) => NoNewCall]_vars

\* the quota is met while an unprocessed candidate is still in the batch
C2_Witness ==
  /\ pc = "loop"
  /\ scraped_counter = paragraph_count
  /\ link_idx <= Len(new_links)
  /\ new_links[link_idx] \notin scraped_urls
  /\ calls.fetch >= 1

\* C3: the sequence a search call returns, from either provider, holds no
\* identifier of the excluded set it was given.
C3_ExcludedNeverReturned ==
  pc = "search_ret" => \A i \in 1..Len(links) : links[i] \notin scraped_urls

\* the fallback provider's page held an excluded identifier and a new one
C3_Witness ==
  /\ pc = "search_ret"
  /\ provider = "bing"
  /\ links # <<>>
  /\ \E i \in 1..Len(results) : results[i] \in scraped_urls

\* C4 as claimed: when the loop moves on from a link whose fetch succeeded,
\* the link is in the store, whatever the oracles answered.
C4_FetchedAlwaysDeduplicated ==
  [][(AfterFetch /\ pc' = "loop" /\ index' = index)
       => new_links[link_idx] \in scraped_urls']_vars

\* C5 as claimed: a failed fetch adds the link to the store, leaves the
\* progress as it is and moves on to the next link.
C5_FailedFetchDeduplicated ==
  [][(pc = "fetch" /\ pc' = "loop")
       => /\ new_links[link_idx] \in scraped_urls'
          /\ scraped_counter' = scraped_counter
          /\ link_idx' = link_idx + 1]_vars

\* C6: every row in the CSV file and in the result sheet carries an excerpt
\* that is not the sentinel.
C6_NoSentinelRowInSinks ==
  /\ \A i \in 1..Len(csv_file) : csv_file[i] = CsvHeader \/ ~IsNone(csv_file[i][4])
  /\ \A i \in 1..Len(result_sheet) :
       result_sheet[i][4].t = "str" /\ ~IsNone(result_sheet[i][4].v)

\* a row was written for a link whose first structured answer was the
\* sentinel and whose re-ask gave an excerpt
C6_Witness ==
  /\ pc = "record"
  /\ reasks = {"openai"}
  /\ Len(csv_file) >= 2
  /\ result_sheet # <<>>

\* C7: at most one confirmatory re-ask is issued for a link.
C7_AtMostOneReask == Cardinality(reasks) <= 1

\* the re-ask of the paragraph oracle answered the sentinel again and no
\* second re-ask followed
C7_Witness ==
  /\ pc = "decide"
  /\ reasks = {"claude"}
  /\ IsNone(claude_paragraph)

\* C8: an oracle is asked again only when its own first answer was the
\* sentinel and the other oracle's was not; when the two first answers
\* agree, no oracle is asked again.
C8_ReaskOnlyOnDisagreement ==
  [][/\ ("claude" \in reasks' /\ "claude" \notin reasks)
          => /\ reasks = {}
             /\ IsNone(claude_paragraph)
             /\ relevant_data.kind = "rec"
             /\ ~IsNone(relevant_data.content)
     /\ ("openai" \in reasks' /\ "openai" \notin reasks)
          => /\ reasks = {}
             /\ IsNone(relevant_data.content)
             /\ ~IsNone(claude_paragraph)
     /\ (/\ pc \in {"check_claude", "check_openai"}
         /\ reasks = {}
         /\ relevant_data.kind = "rec"
         /\ \/ BothNone(relevant_data, claude_paragraph)
            \/ BothFound(relevant_data, claude_paragraph))
          => reasks' = {}]_vars

\* the structured oracle was asked again after the paragraph oracle found
\* a paragraph
C8_Witness ==
  /\ pc = "decide"
  /\ reasks = {"openai"}
  /\ ~IsNone(claude_paragraph)

\* C9 as claimed: a failed structured extraction is handled like a
\* sentinel answer; no error leaves the processing of the link.
C9_OracleFailureIsEmpty ==
  [][(AfterFetch /\ relevant_data.kind = "str")
       => (index' = index /\ row_errors' = row_errors)]_vars

\* C10 as claimed: a row is never left while quota remains and a candidate
\* of the batch is still unprocessed.
C10_FailureKeepsRowGoing ==
  [][(AfterFetch /\ index' # index)
       => ~(/\ processed_paragraphs + (IF pc = "record" THEN 1 ELSE 0)
                 < remaining_paragraphs
            /\ CandidateLeft)]_vars

\* C11: an error raised while a row is processed moves main() on to the
\* next row; the run ends only after the last row, or when the job sheet
\* could not be read.
C11_RowFailureIsLocal ==
  [][/\ (row_errors' # row_errors) => (pc' = "row" /\ index' = index + 1)
     /\ (pc' = "done" /\ pc # "done") => (pc = "read_jobs" \/ index > Len(rows))]_vars

\* the second row is worked on after the first row failed in an oracle call
C11_Witness ==
  /\ index = 2
  /\ pc = "fetch"
  /\ <<1, "AttributeError">> \in row_errors

\* C12: a record whose write to a sink failed does not count: whenever the
\* candidate loop is at its head, the rows written to the result sheet
\* during the run are as many as the paragraphs counted for the row.
C12_ProgressEqualsWritten ==
  (pc = "loop" /\ index = 1) => processed_paragraphs = Len(result_sheet)

\* C16: when the batch of candidates is used up and the row still lacks
\* paragraphs, main() searches again for the same row.
C16_SearchesAgainWhenQuotaUnmet ==
  [][(/\ pc = "loop"
      /\ link_idx > Len(new_links)
      /\ processed_paragraphs < remaining_paragraphs) => pc' = "google"]_vars

\* C17: a Google page that fails hands the search over to Bing with the
\* same query and dates, wanted count, excluded set and page limit, Bing
\* starting from its first page; once at Bing the call stays there until
\* it returns, so Bing is entered once and nothing else is called.
C17_FallbackOnceSameArguments ==
  [][/\ (pc = "google" /\ status' \in {"status", "error"}) => pc' = "bing"
     /\ (pc = "google" /\ pc' = "bing") =>
          /\ search_args' = search_args
          /\ num_results' = num_results
          /\ max_pages' = max_pages
          /\ scraped_urls' = scraped_urls
          /\ current_page' = 0
          /\ new_results' = <<>>
     /\ pc' = "bing" => pc \in {"google", "bing"}
     /\ pc = "bing" => (pc' \in {"bing", "search_ret"} /\ provider' = "bing")]_vars

\* Google answered its first page and failed on the second; Bing is asked
\* for two pages as Google was
C17_Witness ==
  /\ pc = "bing"
  /\ status = "status"
  /\ calls.search = 2
  /\ current_page = 0
  /\ max_pages = 2
  /\ num_results = 2

\* C18 as stated: when Google failed and Bing fails too, on whichever page,
\* the search returns the empty list.
C18_BothFailReturnsEmpty ==
  (pc = "search_ret" /\ provider = "bing" /\ status \in {"status", "error"})
    => links = <<>>

\* C18, amended: when Google failed and a Bing request raises, the search
\* returns the empty list; when a Bing page answers with a status other
\* than 200 the search returns the first num_results links of the earlier
\* Bing pages, which is the empty list if that page was the first. Nothing
\* is raised, and main() leaves the row without a fetch when the list is
\* empty.
C18_SecondaryFailureResult ==
  [][/\ (pc = "bing" /\ status' = "error") =>
          (pc' = "search_ret" /\ links' = <<>> /\ row_errors' = row_errors)
     /\ (pc = "bing" /\ status' = "status") =>
          /\ pc' = "search_ret"
          /\ row_errors' = row_errors
          /\ Len(links') = Min(Len(new_results), num_results)
          /\ \A i \in 1..Len(links') : links'[i] = new_results[i]
          /\ current_page = 0 => links' = <<>>
     /\ (pc = "search_ret" /\ links = <<>>) =>
          (pc' = "row" /\ index' = index + 1 /\ calls'.fetch = 0)]_vars

\* Google failed, Bing answered its first page with one link and its
\* second page with a status other than 200: the link is returned
C18_Witness ==
  /\ pc = "search_ret"
  /\ provider = "bing"
  /\ status = "status"
  /\ current_page = 1
  /\ links = <<"a">>

\* C19: a search call returns; a provider whose page is answered stops
\* exactly when num_results links are accumulated or the page was the last
\* of max_pages, whatever the page contributed, and otherwise asks for the
\* next page; what is returned is the first num_results accumulated links.
C19_SearchTerminates ==
  /\ <>(pc = "search_ret")
  /\ [][/\ (pc \in {"google", "bing"} /\ status' = "ok") =>
             IF Len(new_results') >= num_results \/ current_page + 1 = max_pages
             THEN /\ pc' = "search_ret"
                  /\ Len(links') = Min(Len(new_results'), num_results)
                  /\ \A i \in 1..Len(links') : links'[i] = new_results'[i]
             ELSE /\ pc' = pc
                  /\ current_page' = current_page + 1
        /\ pc' \in {"google", "bing"} => current_page' < max_pages']_vars

\* Google's first page contributed nothing and its second page was asked
C19_Witness ==
  /\ pc = "search_ret"
  /\ provider = "google"
  /\ status = "ok"
  /\ current_page = 1
  /\ calls.search = 2
  /\ results = <<"b">>
  /\ new_results = <<"b">>

\* C20: no link occurs twice in the list a search call returns.
C20_ReturnedLinksDistinct ==
  pc = "search_ret" =>
    \A i, j \in 1..Len(links) : links[i] = links[j] => i = j

\* C13: after the program has run twice in an unchanged world no row is
\* twice in the result file or in the result sheet.
C13_RerunAddsNoDuplicate ==
  /\ \A i, j \in 1..Len(csv_file) : csv_file[i] = csv_file[j] => i = j
  /\ \A i, j \in 1..Len(result_sheet) : result_sheet[i] = result_sheet[j] => i = j

\* C14: for the row main() is about to save, a second save_to_csv with the
\* same row leaves the file as the first save left it.
C14_SaveTwiceIsSaveOnce ==
  pc = "save_csv" =>
    LET once == SaveToCsv(csv_exists, csv_file, CurrentRow)
    IN  SaveToCsv(TRUE, once, CurrentRow) = once

\* C15: the links of a batch are taken one after the other in the order of
\* the search; a link for which both oracles found nothing is added to the
\* scraped set and leaves the counter and the sinks as they are; a link
\* whose row is saved adds that row at the end of the file and one to the
\* counter; once the counter has reached the paragraph count no further
\* link is fetched.
C15_InOrderEmptyUsesNoQuota ==
  [][/\ (pc # "search_ret" /\ pc' = "loop" /\ link_idx' # link_idx) =>
          link_idx' = link_idx + 1
     /\ (pc \in {"fetch", "openai", "claude", "check_claude", "check_openai",
                 "decide", "save_csv", "update_sheets"} /\ pc' \notin {"loop", "row"}) =>
          (link_idx' = link_idx /\ new_links' = new_links)
     /\ (pc = "decide" /\ relevant_data.kind # "str"
           /\ BothNone(relevant_data, claude_paragraph)) =>
          /\ new_links[link_idx] \in scraped_urls'
          /\ scraped_counter' = scraped_counter
          /\ UNCHANGED sinkVars
          /\ pc' = "loop"
     /\ (pc = "save_csv" /\ pc' = "update_sheets") =>
          /\ Len(csv_file') = (IF csv_exists THEN Len(csv_file) ELSE 1) + 1
          /\ csv_file'[Len(csv_file')] = CsvRow(CurrentRow)
     /\ (pc = "record" /\ pc' = "loop") =>
          /\ scraped_counter' = scraped_counter + 1
          /\ new_links[link_idx] \in scraped_urls'
     /\ (pc = "loop" /\ scraped_counter >= paragraph_count) => pc' # "fetch"]_vars

\* The search returned a, b, c.pdf; a was fetched and both oracles found
\* nothing in it; the rows of b and of c.pdf were saved in that order and
\* the counter stands at two of two.
C15_Witness ==
  /\ pc = "loop"
  /\ new_links = ThreeLinks
  /\ link_idx = 4
  /\ <<"fetch", "a">> \in DOMAIN memo
  /\ memo[<<"fetch", "a">>] = PyStr("text")
  /\ scraped_urls = {"a", "b", "c.pdf"}
  /\ Len(csv_file) = 3
  /\ csv_file[2][2] = "b"
  /\ csv_file[3][2] = "c.pdf"
  /\ Len(result_sheet) = 2
  /\ scraped_counter = 2
  /\ paragraph_count = 2
  /\ processed_paragraphs = 2

\* C30: a row of fewer than seven cells is unpacked with defaults for the
\* missing cells: starting such a row raises nothing, and the row goes on
\* to its search unless its flag cell says TRUE or its count is no number.
C30_ShortRowUnpacks ==
  [][(pc = "row" /\ index <= Len(rows) /\ Len(rows[index]) < 7) =>
        /\ row_errors' = row_errors
        /\ (/\ IsDigit(Cell(rows[index], 4, "1"))
            /\ Len(rows[index]) < 6 \/ ~AlreadyScraped(rows[index][6])) => pc' = "google"]_vars

\* C26: when a record has been emitted and the counter of the row goes up
\* by one, the counter cell (column G) of the row in the job sheet holds
\* the new value.
C26_CounterWrittenBack ==
  [][(pc = "record" /\ scraped_counter' = scraped_counter + 1) =>
        /\ Len(job_sheet'[index + 1]) >= 7
        /\ job_sheet'[index + 1][7] = Digits[scraped_counter' + 1]]_vars

\* C27: when main() finds a row satisfied, at the start of the row or
\* after a record, the flag cell (column F) of that row in the job sheet
\* becomes TRUE and no other row of the sheet changes.
C27_FlagSetOnSatisfiedRow ==
  [][/\ (/\ pc = "row"
         /\ index <= Len(rows)
         /\ Len(rows[index]) >= 7
         /\ ~AlreadyScraped(rows[index][6])
         /\ IsDigit(rows[index][5])
         /\ ParseInt(rows[index][5]) - CounterOf(rows[index]) <= 0) =>
          /\ job_sheet'[index + 1][6] = "TRUE"
          /\ \A r \in 1..Len(job_sheet) : r # index + 1 => job_sheet'[r] = job_sheet[r]
     /\ (pc = "record" /\ scraped_counter + 1 >= paragraph_count) =>
          /\ job_sheet'[index + 1][6] = "TRUE"
          /\ \A r \in 1..Len(job_sheet) : r # index + 1 => job_sheet'[r] = job_sheet[r]]_vars

\* C22: while the program runs no step takes a link out of scraped_urls,
\* and no step takes a link out of scraped_urls.json.
C22_StoreMonotonic ==
  [][/\ pc # "done" => scraped_urls \subseteq scraped_urls'
     /\ scraped_file \subseteq scraped_file']_vars

\* C24: when the process dies, scraped_urls.json holds the set it held
\* before the interrupted add or the set with the added link, so that no
\* link saved earlier is lost to the next load.
C24_CrashLeavesWholeStore ==
  [][pc' = "crashed" =>
        /\ scraped_file' \in {scraped_file, scraped_urls'}
        /\ scraped_file \subseteq scraped_file']_vars

\* C25: a network call that main() has started is over after some time,
\* answered or abandoned: main() gets to the next link, to the next row or
\* to its end.
C25_CallIsAbandoned ==
  (pc \in {"google", "bing", "fetch", "openai", "claude", "check_claude",
           "check_openai", "blocked"})
    ~> (pc \in {"loop", "row", "done"})

C29_PdfRoutedBySuffix ==
  (page_text # NotYet /\ api_response.kind = "body") =>
    LET n == Len(url)
        suffixed == /\ n >= 4
                    /\ url[n - 3] = "."
                    /\ url[n - 2] \in {"p", "P"}
                    /\ url[n - 1] \in {"d", "D"}
                    /\ url[n] \in {"f", "F"}
    IN  /\ suffixed => /\ parser = "pdf"
                       /\ page_text = StrText(ExtractTextFromPdf(api_response.body))
        /\ ~suffixed => /\ parser = "markup"
                        /\ page_text = StrText(GetText(api_response.body))

\* a link ending in ".PDF" answered with an HTML page: the PDF extraction
\* was applied and gave the empty text
C29_Witness ==
  /\ url = <<"a", ".", "P", "D", "F">>
  /\ api_response.kind = "body"
  /\ api_response.body.format = "html"
  /\ parser = "pdf"
  /\ page_text = StrText(NoText)

RECURSIVE CharAt(_, _)
\* the i-th character of a text of at least i characters
CharAt(t, i) == IF i <= Head(t).n THEN Head(t).c ELSE CharAt(Tail(t), i - Head(t).n)

C21_RequestsSpacedAndSingle ==
  [][/\ \A p \in Providers :
          Cardinality({c \in 1..NCallers :
                         caller'[c].at = "request" /\ caller'[c].engine = p}) <= 1
     /\ \A c \in 1..NCallers :
          (caller[c].at = "sleep" /\ caller'[c].at = "request") =>
             LET p == caller[c].engine
                 gap == IF p = "google" THEN GOOGLE_RATE_LIMIT ELSE BING_RATE_LIMIT
             IN  issued[p] = NoRequest \/ clock - issued[p] >= gap]_vars

\* the first caller got its first Google page and waits for the semaphore,
\* which the second caller holds while its request is under way
C21_Witness ==
  /\ caller[1].at = "loop"
  /\ caller[1].engine = "google"
  /\ caller[1].page = 1
  /\ caller[2].at = "request"
  /\ caller[2].engine = "google"
  /\ semaphore["google"] = 0
  /\ issued["google"] = 4

\* C31: within one run a link is fetched at most once: the link that
\* fetch_content_from_url is called with was not fetched before in the run,
\* whether its earlier fetch failed, the search listed it twice or one
\* oracle alone found a paragraph in it.
C31_NoLinkFetchedTwice ==
  [][pc = "fetch" => <<"fetch", new_links[link_idx]>> \notin DOMAIN memo]_vars

\* the links of the pages that Bing has answered in the call
BingYield ==
  UNION {{memo[k][i] : i \in 1..Len(memo[k])} : k \in {d \in DOMAIN memo : d[1] = "bing"}}

\* C32: when a Google page request fails, also after earlier Google pages
\* were answered, every link the search call returns was listed by Bing in
\* this call: a link accumulated from Google is returned only if Bing
\* lists it too.
C32_FallbackReturnsOnlyBing ==
  (pc = "search_ret" /\ provider = "bing")
    => \A i \in 1..Len(links) : links[i] \in BingYield

\* Google's first page gave "a", its second page failed, and Bing's first
\* page gave enough links without "a"
C32_Witness ==
  /\ pc = "search_ret"
  /\ provider = "bing"
  /\ "a" \notin scraped_urls
  /\ calls.search = 3
  /\ PageKey("bing", 1) \notin DOMAIN memo
  /\ links # <<>>
  /\ \A i \in 1..Len(links) : links[i] # "a"

\* the callers that hold the permit of provider p
Holders(p) ==
  {c \in 1..NCallers : caller[c].engine = p /\ caller[c].at \in {"sleep", "request"}}

\* C33: a page request gives its provider's permit back however it ends;
\* the permits that are out are those of callers sleeping or requesting at
\* that provider, so a caller that fell back to Bing holds no Google permit;
\* and a caller that waits for a permit gets it.
C33_GateReleasedAndAcquired ==
  /\ [][\A c \in 1..NCallers :
          (caller[c].at = "request" /\ caller'[c].at # "request")
            => semaphore'[caller[c].engine] = semaphore[caller[c].engine] + 1]_vars
  /\ [](\A p \in Providers : semaphore[p] + Cardinality(Holders(p)) = Permits(p))
  /\ \A c \in 1..NCallers : (caller[c].at = "loop") ~> (caller[c].at # "loop")

\* the first caller's Google request failed and its Bing request is under
\* way, while the second caller, which had to wait, holds Google's permit
C33_Witness ==
  /\ caller[1].engine = "bing"
  /\ caller[1].at = "request"
  /\ caller[2].engine = "google"
  /\ caller[2].at = "request"
  /\ issued["google"] >= 2 * GOOGLE_RATE_LIMIT
  /\ semaphore = [p \in Providers |-> 0]

====
